---------------------------- MODULE Spec2Model ----------------------------
(***************************************************************************)
(* A model of the JOS kernel monitor, kern/monitor.c: the read loop        *)
(* (monitor), the tokenizer and dispatcher (runcmd), the page-mapping      *)
(* inspector (mon_showmappings) and the stack unwinder (mon_backtrace).    *)
(*                                                                         *)
(* Characters are their ASCII codes, a C string is a sequence of codes,    *)
(* the line buffer is a sequence ending in the terminator 0, and a char    *)
(* pointer into the buffer is an index into that sequence (0 is NULL).     *)
(* Machine words are 32 bits wide: the arithmetic of mon_showmappings is   *)
(* taken modulo 2^32 and its int variables are two's complement.           *)
(***************************************************************************)
EXTENDS Integers, Sequences, FiniteSets

VARIABLES
    \* monitor()
    pc,         \* where the monitor is: "readline", "test", "parse", "lookup", "ret", "done"
    nreads,     \* how many times readline has been called
    tf,         \* the trapframe pointer monitor was entered with (0 is NULL)
    mon_buf,    \* monitor's buf: what readline returned (0 is NULL, 1 the line buffer)
    cmdbuf,     \* the characters of the line buffer, with the terminating 0
    line,       \* the line as readline returned it, before runcmd carved it up
    ret,        \* the value runcmd returned to monitor
    \* runcmd()
    buf,        \* runcmd's buf: the scan pointer into cmdbuf
    argc,
    argv,       \* the entries of argv written so far: index -> pointer
    cons,       \* what the current runcmd call printed with cprintf
    invoked,    \* the handler calls the current runcmd call made
    \* mon_showmappings()
    sm_pc,      \* "idle", "loop", "done"
    sm_argc,
    va_start,
    va_end,
    va,
    i,
    npages,
    walks,      \* the virtual addresses handed to pgdir_walk, in call order
    sm_cons,    \* what mon_showmappings printed
    sm_ret,
    \* mon_backtrace()
    bt_pc,      \* "idle", "loop", "done"
    mem,        \* the stack memory: address -> word
    chain,      \* the frame pointers of the chain mem holds, innermost first
    ebp,
    reads,      \* the addresses mon_backtrace has read
    bt_cons     \* what mon_backtrace printed

mon_vars == <<pc, nreads, tf, mon_buf, cmdbuf, line, ret, buf, argc, argv, cons, invoked>>
sm_vars == <<sm_pc, sm_argc, va_start, va_end, va, i, npages, walks, sm_cons, sm_ret>>
bt_vars == <<bt_pc, mem, chain, ebp, reads, bt_cons>>
vars == <<mon_vars, sm_vars, bt_vars>>

-----------------------------------------------------------------------------
(* Bounds of the model *)

\* readline is called at most this many times
MaxReads == 2
\* every line of at most this many characters over Alphabet is an input
MaxLen == 3
\* the longest input line has this many tokens
MaxTokens == 17
\* a range that does not overflow spans at most this many pages
MaxPages == 3
\* the longest frame-pointer chain
MaxFrames == 3

-----------------------------------------------------------------------------
(* Strings and the command table *)

NUL == 0
NULL == 0

\* #define WHITESPACE "\t\r\n "
WHITESPACE_NoCR == <<9, 10, 32>>
WHITESPACE == <<9, 13, 10, 32>>

\* #define MAXARGS 16
MAXARGS == 16

\* "help", "kerninfo", "backtrace", "showmappings"
commands ==
    << [name |-> <<104, 101, 108, 112>>, func |-> "mon_help"],
       [name |-> <<107, 101, 114, 110, 105, 110, 102, 111>>, func |-> "mon_kerninfo"],
       [name |-> <<98, 97, 99, 107, 116, 114, 97, 99, 101>>, func |-> "mon_backtrace"],
       [name |-> <<115, 104, 111, 119, 109, 97, 112, 112, 105, 110, 103, 115>>,
        func |-> "mon_showmappings"] >>

NCOMMANDS == Len(commands)

\* strchr(s, c) != NULL for a character c other than the terminator
strchr(s, c) == \E k \in 1..Len(s) : s[k] = c

\* the C string at pointer ptr of buffer b: the characters up to the first 0
RECURSIVE CStr(_, _)
CStr(b, ptr) == IF b[ptr] = NUL THEN <<>> ELSE <<b[ptr]>> \o CStr(b, ptr + 1)

\* strcmp(s, t): the difference of the first characters that differ, the
\* terminators included; 0 when the strings are equal
RECURSIVE strcmp(_, _)
strcmp(s, t) ==
    LET cs == IF s = <<>> THEN NUL ELSE Head(s)
        ct == IF t = <<>> THEN NUL ELSE Head(t)
    IN IF cs # ct THEN cs - ct
       ELSE IF cs = NUL THEN 0
       ELSE strcmp(Tail(s), Tail(t))

-----------------------------------------------------------------------------
(* The input lines readline may return *)

\* tab, CR, LF, space, vertical tab (no separator), 'a'
Alphabet == {9, 13, 10, 32, 11, 97}

ShortLines == UNION {[1..n -> Alphabet] : n \in 0..MaxLen}

\* the command names, "Help", "hel", "helps", "a"
Words ==
    {commands[k].name : k \in 1..NCOMMANDS}
        \cup {<<72, 101, 108, 112>>, <<104, 101, 108>>, <<104, 101, 108, 112, 115>>, <<97>>}

\* "0x1000", "0x2000", "a"
Operands == {<<48, 120, 49, 48, 48, 48>>, <<48, 120, 50, 48, 48, 48>>, <<97>>}

Pads == {<<>>, <<32>>, <<9, 32>>}

Seps == {<<32>>, <<13, 10>>, <<32, 32, 32>>}

CmdLines ==
    {lead \o w \o trail : lead \in Pads, w \in Words, trail \in Pads}
        \cup {lead \o w \o sep \o x \o trail :
                lead \in Pads, w \in Words, sep \in Seps, x \in Operands, trail \in Pads}

\* "  showmappings   0x1000 0x2000  "
ExampleLine ==
    <<32, 32>> \o commands[4].name \o <<32, 32, 32>> \o <<48, 120, 49, 48, 48, 48>>
        \o <<32>> \o <<48, 120, 50, 48, 48, 48>> \o <<32, 32>>

\* n more tokens "a", each after the separator sep
RECURSIVE Repeat(_, _)
Repeat(n, sep) == IF n = 0 THEN <<>> ELSE sep \o <<97>> \o Repeat(n - 1, sep)

ManyLines ==
    {w \o Repeat(n - 1, sep) \o trail :
        w \in {commands[1].name, <<97>>}, n \in 1..MaxTokens,
        sep \in {<<32>>, <<9, 32>>}, trail \in {<<>>, <<32>>}}

Lines == ShortLines \cup CmdLines \cup ManyLines \cup {ExampleLine}

-----------------------------------------------------------------------------
(* runcmd: the tokenizer *)

\* while (*buf && strchr(WHITESPACE, *buf)): where the scan pointer q stops
RECURSIVE SkipWhitespace(_, _)
SkipWhitespace(b, q) ==
    IF b[q] # NUL /\ strchr(WHITESPACE, b[q]) THEN SkipWhitespace(b, q + 1) ELSE q

\* *buf++ = 0 for every character the gobble loop passed, from..to-1
Gobble(b, from, to) == [k \in 1..Len(b) |-> IF from <= k /\ k < to THEN NUL ELSE b[k]]

\* while (*buf && !strchr(WHITESPACE, *buf)) buf++: where the scan pointer q stops
RECURSIVE ScanArg(_, _)
ScanArg(b, q) ==
    IF b[q] # NUL /\ ~strchr(WHITESPACE, b[q]) THEN ScanArg(b, q + 1) ELSE q

\* if (argc == MAXARGS) ...: the test one too late
ArgvFullLate(n) == n = MAXARGS

\* if (argc == MAXARGS-1)
ArgvFull(n) == n = MAXARGS - 1

\* argv[n] = ptr
Store(a, n, ptr) == [k \in DOMAIN a \cup {n} |-> IF k = n THEN ptr ELSE a[k]]

\* cprintf("Too many arguments (max %d)\n", MAXARGS)
TooManyMsg == [fmt |-> "Too many arguments (max %d)\n", arg |-> <<MAXARGS>>]

\* cprintf("Unknown command '%s'\n", argv[0])
UnknownMsg(s) == [fmt |-> "Unknown command '%s'\n", arg |-> s]

\* the strings argv[0..n-1] point to
ArgStrings(b, a, n) == [k \in 0..(n - 1) |-> CStr(b, a[k])]

\* strncmp(argv[0], commands[i].name, strlen(argv[0])) == 0: argv[0] only
\* has to start the name
NameMatchesPrefix(s, k) ==
    Len(s) <= Len(commands[k].name) /\ SubSeq(commands[k].name, 1, Len(s)) = s

\* strcmp(argv[0], commands[i].name) == 0
NameMatches(s, k) == strcmp(s, commands[k].name) = 0

\* for (i = 0; i < NCOMMANDS; i++) if (strcmp(...) == 0): the first matching
\* entry from k on, 0 when there is none
RECURSIVE FindCommand(_, _)
FindCommand(s, k) ==
    IF k > NCOMMANDS THEN 0
    ELSE IF NameMatches(s, k) THEN k
    ELSE FindCommand(s, k + 1)

\* what a handler returns: mon_help, mon_kerninfo, mon_backtrace and
\* mon_showmappings all end in return 0
HandlerReturn(func) == 0

\* if (runcmd(buf, tf) < 0) break, as a test that also leaves on 0
LoopExitOnZero(r) == r <= 0

\* if (runcmd(buf, tf) < 0) break
LoopExit(r) == r < 0

\* if (buf != NULL), as a test that lets every result through
LineReadAlways(b) == TRUE

\* if (buf != NULL)
LineRead(b) == b # NULL

-----------------------------------------------------------------------------
(* The handlers at rest, for the specifications that do not run them *)

EmptyArgv == [k \in {} |-> NULL]

SmIdle ==
    /\ sm_pc = "idle" /\ sm_argc = 0
    /\ va_start = <<0, 0>> /\ va_end = <<0, 0>> /\ va = <<0, 0>>
    /\ i = 0 /\ npages = 0 /\ walks = <<>> /\ sm_cons = <<>> /\ sm_ret = 0

BtIdle ==
    /\ bt_pc = "idle" /\ mem = <<>> /\ chain = <<>> /\ ebp = <<0, 0>>
    /\ reads = <<>> /\ bt_cons = <<>>

MonIdle ==
    /\ pc = "idle" /\ nreads = 0 /\ tf = NULL /\ mon_buf = NULL /\ cmdbuf = <<NUL>>
    /\ line = <<>> /\ ret = 0 /\ buf = NULL /\ argc = 0 /\ argv = EmptyArgv
    /\ cons = <<>> /\ invoked = <<>>

-----------------------------------------------------------------------------
(* monitor and runcmd *)

\* monitor has printed its banner and is about to call readline for the first
\* time; buf is not assigned yet and is not read before readline assigns it
Init ==
    /\ pc = "readline" /\ nreads = 0 /\ tf \in {NULL, 1}
    /\ mon_buf = NULL /\ cmdbuf = <<NUL>> /\ line = <<>> /\ ret = 0
    /\ buf = NULL /\ argc = 0 /\ argv = EmptyArgv /\ cons = <<>> /\ invoked = <<>>
    /\ SmIdle /\ BtIdle

\* buf = readline("K> "): a line, or NULL
Readline ==
    /\ pc = "readline" /\ nreads < MaxReads
    /\ nreads' = nreads + 1
    /\ \/ \E l \in Lines : mon_buf' = 1 /\ cmdbuf' = l \o <<NUL>> /\ line' = l
       \/ mon_buf' = NULL /\ cmdbuf' = <<NUL>> /\ line' = <<>>
    /\ pc' = "test"
    /\ UNCHANGED <<tf, ret, buf, argc, argv, cons, invoked, sm_vars, bt_vars>>

\* if (buf != NULL) runcmd(buf, tf): enter runcmd (argc = 0; argv[argc] = 0),
\* or go round the loop
MonitorTest ==
    /\ pc = "test"
    /\ IF LineRead(mon_buf)
       THEN /\ buf' = mon_buf /\ argc' = 0 /\ argv' = Store(EmptyArgv, 0, NULL)
            /\ cons' = <<>> /\ invoked' = <<>>
            /\ pc' = "parse"
       ELSE /\ pc' = "readline"
            /\ UNCHANGED <<buf, argc, argv, cons, invoked>>
    /\ UNCHANGED <<nreads, tf, mon_buf, cmdbuf, line, ret, sm_vars, bt_vars>>

\* one round of runcmd's while (1): gobble whitespace, then stop at the end of
\* the line, refuse a 16th argument, or save and scan past the next argument
ParseStep ==
    /\ pc = "parse"
    /\ LET q == SkipWhitespace(cmdbuf, buf)
           b == Gobble(cmdbuf, buf, q)
       IN /\ cmdbuf' = b
          /\ IF b[q] = NUL
             THEN /\ argv' = Store(argv, argc, NULL) /\ buf' = q /\ pc' = "lookup"
                  /\ UNCHANGED <<argc, cons, ret>>
             ELSE IF ArgvFull(argc)
             THEN /\ cons' = Append(cons, TooManyMsg) /\ ret' = 0 /\ buf' = q
                  /\ pc' = "ret"
                  /\ UNCHANGED <<argc, argv>>
             ELSE /\ argv' = Store(argv, argc, q) /\ argc' = argc + 1
                  /\ buf' = ScanArg(b, q) /\ pc' = "parse"
                  /\ UNCHANGED <<cons, ret>>
    /\ UNCHANGED <<nreads, tf, mon_buf, line, invoked, sm_vars, bt_vars>>

\* runcmd's lookup: nothing for an empty line; the first command whose name
\* strcmp finds equal to argv[0] is called and its value returned; otherwise
\* the unknown-command message and 0
Lookup ==
    /\ pc = "lookup"
    /\ IF argc = 0
       THEN ret' = 0 /\ UNCHANGED <<cons, invoked>>
       ELSE LET k == FindCommand(CStr(cmdbuf, argv[0]), 1)
            IN IF k # 0
               THEN /\ invoked' = Append(invoked,
                                    [func |-> commands[k].func, argc |-> argc,
                                     argv |-> ArgStrings(cmdbuf, argv, argc), tf |-> tf])
                    /\ ret' = HandlerReturn(commands[k].func)
                    /\ UNCHANGED cons
               ELSE /\ cons' = Append(cons, UnknownMsg(CStr(cmdbuf, argv[0])))
                    /\ ret' = 0
                    /\ UNCHANGED invoked
    /\ pc' = "ret"
    /\ UNCHANGED <<nreads, tf, mon_buf, cmdbuf, line, buf, argc, argv, sm_vars, bt_vars>>

\* runcmd has returned: break on a negative value, otherwise go round the
\* loop. runcmd's locals are gone, and the line is dead: nothing reads the
\* buffer again before readline overwrites it
MonitorRet ==
    /\ pc = "ret"
    /\ pc' = IF LoopExit(ret) THEN "done" ELSE "readline"
    /\ buf' = NULL /\ argc' = 0 /\ argv' = EmptyArgv /\ invoked' = <<>>
    /\ cmdbuf' = <<NUL>> /\ line' = <<>>
    /\ UNCHANGED <<nreads, tf, mon_buf, ret, cons, sm_vars, bt_vars>>

Next == Readline \/ MonitorTest \/ ParseStep \/ Lookup \/ MonitorRet

Spec == Init /\ [][Next]_vars

-----------------------------------------------------------------------------
(* mon_showmappings                                                         *)
(*                                                                          *)
(* A 32-bit word is the pair <<hi, lo>> of its upper 20 and lower 12 bits:  *)
(* its value is hi * PGSIZE + lo, hi is its page number and lo its page     *)
(* offset. The arithmetic below is that of uint32_t, modulo 2^32; no        *)
(* intermediate value is wider than 21 bits.                                *)

\* inc/mmu.h: bytes mapped by a page, and log2 of it
PGSIZE == 4096
PGSHIFT == 12

\* the number of pages of the 32-bit address space, 2^(32 - PGSHIFT)
NPAGES == 2 ^ (32 - PGSHIFT)

\* a + b in uint32_t
Add32(a, b) ==
    LET lo == a[2] + b[2]
    IN <<(a[1] + b[1] + (lo \div PGSIZE)) % NPAGES, lo % PGSIZE>>

\* a - b in uint32_t
Sub32(a, b) ==
    LET lo == a[2] - b[2] + PGSIZE
    IN <<(a[1] - b[1] - 1 + (lo \div PGSIZE) + NPAGES) % NPAGES, lo % PGSIZE>>

\* a < b in uint32_t
Lt32(a, b) == a[1] < b[1] \/ (a[1] = b[1] /\ a[2] < b[2])

\* inc/types.h: ROUNDUP(a, PGSIZE) is ROUNDDOWN((uint32_t) a + PGSIZE - 1, PGSIZE),
\* and ROUNDDOWN(x, PGSIZE) is x - x % PGSIZE
ROUNDUP(a) ==
    LET x == Add32(a, <<0, PGSIZE - 1>>)
    IN <<x[1], 0>>

\* npages = ROUNDUP(...); npages = npages >> PGSHIFT: the multiple of PGSIZE
\* r stored in an int (a value of 2^31 or more becomes negative) and shifted
\* right arithmetically, as gcc does both
PagesOf(r) == IF r[1] >= NPAGES \div 2 THEN r[1] - NPAGES ELSE r[1]

\* if (argc < 3): the test that lets extra arguments through
BadArgcBelow(n) == n < 3

\* if (argc != 3)
BadArgc(n) == n # 3

\* cprintf("error: showmappings needs 2 parameters\n")
UsageMsg == [fmt |-> "error: showmappings needs 2 parameters\n", va |-> <<>>]

\* cprintf("error: va_end < va_start\n")
RangeMsg == [fmt |-> "error: va_end < va_start\n", va |-> <<>>]

\* cprintf("vapaddr:0x%x --> paddr:0x%x, p = %d, w = %d, u = %d\n", va, ...)
MappedMsg(v) ==
    [fmt |-> "vapaddr:0x%x --> paddr:0x%x, p = %d, w = %d, u = %d\n", va |-> v]

\* cprintf("vaddr:0x%x is not mapped\n", va)
UnmappedMsg(v) == [fmt |-> "vaddr:0x%x is not mapped\n", va |-> v]

\* what pgdir_walk(kern_pgdir, va, 0) may return: NULL, or a pointer to an
\* entry whose PTE_P bit is clear or set
PteResults == {[ptr |-> NULL, P |-> 0], [ptr |-> 1, P |-> 0], [ptr |-> 1, P |-> 1]}

\* the argc values mon_showmappings is called with
ShowArgcs == {1, 2, 3, 4, MAXARGS - 1}

\* the values strtol gives for argv[1]
ShowStarts ==
    {<<0, 0>>, <<0, 1>>, <<0, PGSIZE - 1>>, <<1, 0>>, <<1, PGSIZE \div 2>>,
     <<NPAGES \div 2, 0>>, <<NPAGES - 1, 0>>, <<NPAGES - 1, PGSIZE - 1>>}

\* end - start of the ranges of at most MaxPages pages
SmallSpans == (0..(MaxPages - 1)) \X {0, 1, PGSIZE - 1}

\* end - start of the ranges whose byte count, rounded up, is 2^31 or more,
\* or wraps around 2^32
LargeSpans ==
    {<<NPAGES \div 2 - 1, 0>>, <<NPAGES \div 2, 0>>, <<NPAGES - 2, PGSIZE - 1>>,
     <<NPAGES - 1, PGSIZE - 2>>, <<NPAGES - 1, PGSIZE - 1>>}

\* the pairs (start, end) with start <= end
ShowRanges ==
    {r \in {<<s, Add32(s, d)>> : s \in ShowStarts, d \in SmallSpans \cup LargeSpans} :
        ~Lt32(r[2], r[1])}

\* the values strtol gives for argv[1] and argv[2]
ShowInputs == ShowRanges \cup {<<r[2], r[1]>> : r \in ShowRanges}

SmInit ==
    /\ SmIdle /\ MonIdle /\ BtIdle

\* mon_showmappings up to its loop: the argc test, the two strtol calls, the
\* range test, npages
ShowCall ==
    /\ sm_pc = "idle"
    /\ \E n \in ShowArgcs :
        /\ sm_argc' = n
        /\ IF BadArgc(n)
           THEN /\ sm_cons' = Append(sm_cons, UsageMsg)
                /\ sm_pc' = "done" /\ sm_ret' = 0
                /\ UNCHANGED <<va_start, va_end, va, i, npages>>
           ELSE \E r \in ShowInputs :
                /\ va_start' = r[1]
                /\ va_end' = r[2]
                /\ IF Lt32(r[2], r[1])
                   THEN /\ sm_cons' = Append(sm_cons, RangeMsg)
                        /\ sm_pc' = "done" /\ sm_ret' = 0
                        /\ UNCHANGED <<va, i, npages>>
                   ELSE /\ npages' = PagesOf(ROUNDUP(Add32(Sub32(r[2], r[1]), <<0, 1>>)))
                        /\ i' = 0 /\ va' = r[1]
                        /\ sm_pc' = "loop"
                        /\ UNCHANGED <<sm_cons, sm_ret>>
    /\ UNCHANGED <<walks, mon_vars, bt_vars>>

\* one round of for (i = 0, va = va_start; i < npages; i++, va += PGSIZE),
\* or the return 0 after the loop
ShowStep ==
    /\ sm_pc = "loop"
    /\ IF i < npages
       THEN /\ \E pte \in PteResults :
                sm_cons' = Append(sm_cons,
                                  IF pte.ptr # NULL /\ pte.P # 0
                                  THEN MappedMsg(va) ELSE UnmappedMsg(va))
            /\ walks' = Append(walks, va)
            /\ i' = i + 1
            /\ va' = Add32(va, <<1, 0>>)
            /\ UNCHANGED <<sm_pc, sm_ret>>
       ELSE /\ sm_pc' = "done" /\ sm_ret' = 0
            /\ UNCHANGED <<walks, sm_cons, i, va>>
    /\ UNCHANGED <<sm_argc, va_start, va_end, npages, mon_vars, bt_vars>>

SmNext == ShowCall \/ ShowStep

SpecShowmappings == SmInit /\ [][SmNext]_vars

-----------------------------------------------------------------------------
(* mon_backtrace                                                            *)
(*                                                                          *)
(* Addresses and the words of memory are 32-bit words <<hi, lo>> as above.  *)

\* the kernel stack addresses a frame pointer may hold: 8 bytes apart below
\* the top of the stack page, so that the argument words of one frame are
\* the saved ebp and return address of others, and the outermost frame's
\* argument words lie across the page boundary
FrameAddrs == {<<983311, PGSIZE - 8 * k>> : k \in 1..(MaxFrames + 2)}

\* the frame-pointer chains: up to MaxFrames different frame addresses
Chains ==
    {c \in UNION {[1..n -> FrameAddrs] : n \in 1..MaxFrames} :
        \A j, k \in 1..Len(c) : j # k => c[j] # c[k]}

\* the addresses ebp + 0, ebp + 4, ..., ebp + 24 of a frame
FrameWords(f) == {Add32(f, <<0, 4 * j>>) : j \in 0..6}

\* the memory holding chain c: the word at a frame pointer is the next frame
\* pointer of the chain, 0 at the last; every other word is some value that
\* depends on its address and on seed
StackMemory(c, seed) ==
    [a \in UNION {FrameWords(c[k]) : k \in 1..Len(c)} |->
        IF \E k \in 1..Len(c) : c[k] = a
        THEN LET k == CHOOSE j \in 1..Len(c) : c[j] = a
             IN IF k < Len(c) THEN c[k + 1] ELSE <<0, 0>>
        ELSE <<seed, a[2]>>]

\* for (...; (int) ebp > 0; ...): the test a signed ebp would make
BtContinueSigned(e) == e[1] < NPAGES \div 2 /\ e # <<0, 0>>

\* for (...; ebp != 0; ...)
BtContinue(e) == e # <<0, 0>>

\* cprintf("Stack backtrace:\n")
BacktraceMsg == [fmt |-> "Stack backtrace:\n"]

\* cprintf("  ebp %08x  eip %08x  args %08x %08x %08x %08x %08x\n", ...)
FrameFmt == "  ebp %08x  eip %08x  args %08x %08x %08x %08x %08x\n"

FrameMsg(e, eip, args) == [fmt |-> FrameFmt, ebp |-> e, eip |-> eip, args |-> args]

\* the three cprintf calls after debuginfo_eip found the function of eip
SymbolMsg(eip) == [fmt |-> "         %s:%d:  %.*s+%d\n", eip |-> eip]

\* cprintf("not found\n")
NotFoundMsg == [fmt |-> "not found\n"]

\* mon_backtrace is called on a stack whose frame-pointer chain is in chain
BtInit ==
    /\ bt_pc = "idle" /\ ebp = <<0, 0>> /\ reads = <<>> /\ bt_cons = <<>>
    /\ \E c \in Chains, seed \in {0, 1} : chain = c /\ mem = StackMemory(c, seed)
    /\ MonIdle /\ SmIdle

\* cprintf("Stack backtrace:\n"); ebp = read_ebp()
BtCall ==
    /\ bt_pc = "idle"
    /\ bt_cons' = Append(bt_cons, BacktraceMsg)
    /\ ebp' = chain[1]
    /\ bt_pc' = "loop"
    /\ UNCHANGED <<mem, chain, reads, mon_vars, sm_vars>>

\* one round of for (ebp = read_ebp(); ebp != 0; ebp = *(uint32_t *)ebp):
\* read eip and the five arguments, print the frame line, print what
\* debuginfo_eip found or "not found", load the saved ebp; or return 0
BtStep ==
    /\ bt_pc = "loop"
    /\ IF BtContinue(ebp)
       THEN LET at(k) == Add32(ebp, <<0, k>>)
                eip == mem[at(4)]
                args == <<mem[at(8)], mem[at(12)], mem[at(16)], mem[at(20)], mem[at(24)]>>
            IN /\ \E found \in BOOLEAN :
                    bt_cons' = bt_cons \o <<FrameMsg(ebp, eip, args),
                                            IF found THEN SymbolMsg(eip) ELSE NotFoundMsg>>
               /\ reads' = reads \o <<at(4), at(8), at(12), at(16), at(20), at(24), ebp>>
               /\ ebp' = mem[ebp]
               /\ UNCHANGED bt_pc
       ELSE /\ bt_pc' = "done"
            /\ UNCHANGED <<ebp, reads, bt_cons>>
    /\ UNCHANGED <<mem, chain, mon_vars, sm_vars>>

BtNext == BtCall \/ BtStep

\* mon_backtrace runs on: nothing in the monitor preempts or suspends it
SpecBacktrace == BtInit /\ [][BtNext]_vars /\ WF_vars(BtNext)

-----------------------------------------------------------------------------
(* What a line's arguments are, stated on the line itself: its maximal runs  *)
(* of characters other than tab, CR, LF and space                            *)

IsSpace(c) == c \in {9, 13, 10, 32}

\* where a run starts: a character that is no space, at the start of the line
\* or after a space
RunStarts(l) ==
    {a \in 1..Len(l) : ~IsSpace(l[a]) /\ (a = 1 \/ IsSpace(l[a - 1]))}

\* where the run starting at a ends
RunEnd(l, a) ==
    CHOOSE b \in a..Len(l) :
        /\ \A k \in a..b : ~IsSpace(l[k])
        /\ (b = Len(l) \/ IsSpace(l[b + 1]))

TokenCount(l) == Cardinality(RunStarts(l))

\* the k-th run from the left
Token(l, k) ==
    LET a == CHOOSE x \in RunStarts(l) : Cardinality({y \in RunStarts(l) : y < x}) = k - 1
    IN SubSeq(l, a, RunEnd(l, a))

\* runcmd refused the line
Rejected == cons = <<TooManyMsg>>

-----------------------------------------------------------------------------
(* Claims about monitor and runcmd, under Spec *)

\* C1 (as stated): when runcmd returns, the line was refused (the too-many-
\* arguments message, no handler call, return value 0) exactly when it has
\* more than 16 tokens, and a line of 1 to 16 tokens was tokenized in full
\* and dispatched with argc equal to its number of tokens.
C1_LimitIsSixteen ==
    pc = "ret" =>
        LET n == TokenCount(line)
        IN /\ (Rejected /\ invoked = <<>> /\ ret = 0) <=> (n > 16)
           /\ (n >= 1 /\ n <= 16) =>
                /\ argc = n
                /\ ~Rejected
                /\ (invoked # <<>> \/ cons = <<UnknownMsg(Token(line, 1))>>)

\* C6 (as stated): once readline has returned NULL, monitor leaves its loop
\* and readline is not called again.
C6_LoopEndsAtEof ==
    [][(pc = "test" /\ mon_buf = NULL) => pc' = "done"]_vars

\* C6 (amended): when readline returns NULL, monitor does not call runcmd
\* for it, stays in its loop and goes back to call readline again; the loop
\* is left only from a runcmd call that returned a negative value.
C6_NullLineIsSkipped ==
    [][/\ (pc = "test" /\ mon_buf = NULL) =>
            (pc' = "readline" /\ UNCHANGED <<ret, argc, argv, cons, invoked>>)
       /\ (pc # "done" /\ pc' = "done") => (pc = "ret" /\ ret < 0)]_vars

\* readline returned NULL and monitor is back at the call of readline
C6_Witness == pc = "readline" /\ mon_buf = NULL /\ nreads >= 1 /\ nreads < MaxReads

C8_DispatchByExactName ==
    (pc = "ret" /\ ~Rejected /\ argc > 0) =>
        LET a0 == CStr(cmdbuf, argv[0])
            named == {k \in 1..NCOMMANDS : commands[k].name = a0}
        IN IF named # {}
           THEN \E k \in named :
                    /\ named = {k}
                    /\ invoked = << [func |-> commands[k].func, argc |-> argc,
                                     argv |-> ArgStrings(cmdbuf, argv, argc), tf |-> tf] >>
                    /\ cons = <<>>
                    /\ ret = HandlerReturn(commands[k].func)
           ELSE /\ invoked = <<>>
                /\ cons = <<UnknownMsg(a0)>>
                /\ ret = 0

\* "  showmappings   0x1000 0x2000  " has been dispatched to mon_showmappings
C8_Witness ==
    /\ pc = "ret" /\ line = ExampleLine /\ argc = 3
    /\ Len(invoked) = 1 /\ invoked[1].func = "mon_showmappings"

\* C9: a line of at most MAXARGS-1 tokens is not refused, and when runcmd has
\* tokenized a line it did not refuse, argv[0..argc-1] are the maximal runs
\* of non-whitespace characters of the line from left to right, none of them
\* empty, and argv[argc] is NULL; for a line with no such run argc is 0,
\* nothing is printed, no handler is called and runcmd returns 0.
C9_ArgvIsTheMaximalRuns ==
    /\ (pc = "ret" /\ TokenCount(line) <= MAXARGS - 1) => ~Rejected
    /\ (pc = "lookup" \/ (pc = "ret" /\ ~Rejected)) =>
            /\ argc = TokenCount(line)
            /\ \A k \in 1..argc :
                    /\ CStr(cmdbuf, argv[k - 1]) = Token(line, k)
                    /\ Len(CStr(cmdbuf, argv[k - 1])) > 0
            /\ argv[argc] = NULL
    /\ (pc = "ret" /\ TokenCount(line) = 0) =>
            /\ argc = 0 /\ cons = <<>> /\ invoked = <<>> /\ ret = 0

\* the line with leading, repeated and trailing spaces has been tokenized
C9_Witness ==
    /\ pc = "lookup" /\ line = ExampleLine /\ argc = 3
    /\ CStr(cmdbuf, argv[1]) = <<48, 120, 49, 48, 48, 48>>

\* C10: at every point of runcmd argc is in 0..MAXARGS-1 and every entry of
\* argv written so far, the terminating one included, has an index in
\* 0..MAXARGS-1.
C10_ArgvInBounds ==
    /\ argc \in 0..(MAXARGS - 1)
    /\ DOMAIN argv \subseteq 0..(MAXARGS - 1)

\* a line with more tokens than argv holds was cut off with argv full
C10_Witness ==
    /\ pc = "ret" /\ Rejected /\ argc = MAXARGS - 1 /\ TokenCount(line) > MAXARGS
    /\ DOMAIN argv = 0..(MAXARGS - 2)

-----------------------------------------------------------------------------
(* Claims about mon_showmappings, under SpecShowmappings *)

\* argc == 3 and the parsed start <= end
RangeAccepted == sm_argc = 3 /\ ~(va_end[1] < va_start[1]
                                   \/ (va_end[1] = va_start[1] /\ va_end[2] < va_start[2]))

\* C2 (as stated): for argc == 3 and start <= end, every page that holds an
\* address of [start, end], from the page of start to the page of end, is
\* looked up with pgdir_walk exactly once, in ascending order.
C2_EveryPageOfTheRange ==
    (sm_pc = "done" /\ RangeAccepted) =>
        /\ Len(walks) = va_end[1] - va_start[1] + 1
        /\ \A k \in 1..Len(walks) : walks[k][1] = va_start[1] + k - 1

\* C3 (as stated): for start <= end, mon_showmappings makes exactly
\* ceil((end - start + 1) / PGSIZE) calls of pgdir_walk; with
\* end - start = d * PGSIZE + r and 0 <= r < PGSIZE that is d + 1.
C3_CeilOfSpanQueries ==
    (sm_pc = "done" /\ RangeAccepted) =>
        Len(walks) = Sub32(va_end, va_start)[1] + 1

\* C4: mon_showmappings called with argc != 3, or with argc == 3 and the
\* parsed end < start, prints exactly one message, an error message, calls
\* pgdir_walk not once, prints no line for a page, and returns 0.
C4_BadCallWalksNothing ==
    /\ (sm_pc = "done" /\ ~RangeAccepted) =>
            /\ Len(sm_cons) = 1
            /\ sm_cons[1] = (IF sm_argc # 3 THEN UsageMsg ELSE RangeMsg)
            /\ walks = <<>>
            /\ sm_ret = 0
    /\ ~RangeAccepted => sm_pc # "loop"

\* a call with argc == 3 and end < start has returned
C4_Witness ==
    /\ sm_pc = "done" /\ sm_argc = 3 /\ va_start = <<1, 0>> /\ va_end = <<0, 1>>
    /\ sm_cons = <<RangeMsg>> /\ walks = <<>>

-----------------------------------------------------------------------------
(* Claims about mon_backtrace, under SpecBacktrace *)

\* the frame lines printed so far
FrameLines == SelectSeq(bt_cons, LAMBDA m : m.fmt = FrameFmt)

\* the frame line of the frame at f: the words at f, f+4 and f+8..f+24
LineOfFrame(f) ==
    [ebp |-> f, eip |-> mem[Add32(f, <<0, 4>>)],
     args |-> [j \in 1..5 |-> mem[Add32(f, <<0, 4 + 4 * j>>)]]]

\* the frame lines so far are those of the first frames of the chain, in
\* chain order; once mon_backtrace has returned they are those of all N
\* frames; and no read was at address 0 or at 4, 8, ..., 24
C5_Safety ==
    /\ Len(FrameLines) <= Len(chain)
    /\ \A k \in 1..Len(FrameLines) :
            /\ FrameLines[k].ebp = LineOfFrame(chain[k]).ebp
            /\ FrameLines[k].eip = LineOfFrame(chain[k]).eip
            /\ FrameLines[k].args = LineOfFrame(chain[k]).args
    /\ bt_pc = "done" => Len(FrameLines) = Len(chain)
    /\ \A k \in 1..Len(reads) : ~(reads[k][1] = 0 /\ reads[k][2] <= 24)

\* C5: on a stack whose saved-frame-pointer chain from the current ebp has N
\* non-zero frame pointers and then a stored zero, mon_backtrace terminates
\* having printed exactly N frame lines, in chain order, each made of the
\* words at ebp+4 and ebp+8..ebp+24 of its frame, and it reads nothing
\* through the zero: no read is at address 0 or at 4..24.
C5_BacktraceWalksTheChain == []C5_Safety /\ <>(bt_pc = "done")

\* mon_backtrace has returned from a chain of at least two frames
C5_Witness ==
    /\ bt_pc = "done" /\ Len(chain) >= 2 /\ Len(FrameLines) = Len(chain)
    /\ ebp = <<0, 0>>

=============================================================================
